---- MODULE Spec2Model ----
(***************************************************************************)
(* Model of Backend/embedding_service/app.py: a process that constructs a  *)
(* SentenceTransformer at import time, builds a FastAPI application with   *)
(* one route, POST /embed, and serves it with uvicorn.  The route is a     *)
(* synchronous function, so concurrent requests run it on worker threads   *)
(* and their steps interleave.                                             *)
(***************************************************************************)
EXTENDS Integers, Sequences, FiniteSets, TLC

\* Number of requests that can be in flight at the same time.
NumReq == 2
\* Longest "texts" array a client sends.
MaxLen == 2

Slots == 1..NumReq

\* app.py:6, the name the model is constructed from.
ModelName == "all-MiniLM-L6-v2"

\* The strings clients put into "texts".
Strings == {"", "a"}

(***************************************************************************)
(* JSON request bodies.  An element of the "texts" array is a JSON string  *)
(* or a JSON number; a body either lacks the field, carries a value that   *)
(* is not an array, or carries an array.                                   *)
(***************************************************************************)
JStr(s) == [t |-> "str", v |-> s]
JNum == [t |-> "num", v |-> "1"]
Elems == {JStr(s) : s \in Strings} \cup {JNum}

RECURSIVE SeqsUpTo(_, _)
SeqsUpTo(S, n) ==
    IF n = 0 THEN {<<>>}
    ELSE LET shorter == SeqsUpTo(S, n - 1)
         IN shorter \cup {Append(q, e) : q \in {p \in shorter : Len(p) = n - 1}, e \in S}

Bodies ==
    {[kind |-> "missing", items |-> <<>>], [kind |-> "notlist", items |-> <<>>]}
    \cup {[kind |-> "list", items |-> q] : q \in SeqsUpTo(Elems, MaxLen)}

\* The bodies sent by callers that compete with each other.
SmallBodies ==
    {[kind |-> "notlist", items |-> <<>>],
     [kind |-> "list", items |-> <<JStr("a")>>],
     [kind |-> "list", items |-> <<JStr("")>>],
     [kind |-> "list", items |-> <<JStr("a"), JStr("")>>]}

(***************************************************************************)
(* class TextRequest(BaseModel): texts: list[str]                          *)
(***************************************************************************)
ValidLax(b) == b.kind = "list"

Valid(b) ==
    /\ b.kind = "list"
    /\ \A i \in 1..Len(b.items) : b.items[i].t = "str"

Texts(b) == [i \in 1..Len(b.items) |-> b.items[i].v]

(***************************************************************************)
(* The model as a capability: encode(texts, normalize_embeddings).  A      *)
(* vector is a sequence of rationals <<numerator, denominator>>; the raw   *)
(* output of the network for a string has integer coordinates.             *)
(***************************************************************************)
RawVec(m, s) == IF s = "" THEN <<3, 4>> ELSE <<5, 12>>

Dim == Len(RawVec(ModelName, ""))

RECURSIVE SumSq(_)
SumSq(v) == IF v = <<>> THEN 0 ELSE Head(v) * Head(v) + SumSq(Tail(v))

Norm(v) == CHOOSE n \in 0..SumSq(v) : n * n = SumSq(v)

Scale(v, d) == [i \in 1..Len(v) |-> <<v[i], d>>]

Vec(m, s, normalize) ==
    IF normalize THEN Scale(RawVec(m, s), Norm(RawVec(m, s)))
    ELSE Scale(RawVec(m, s), 1)

RECURSIVE Flat(_, _, _)
Flat(m, texts, normalize) ==
    IF texts = <<>> THEN <<>>
    ELSE Vec(m, Head(texts), normalize) \o Flat(m, Tail(texts), normalize)

\* numpy array: a shape and the row-major data.  No sentence gives array([]).
NdArray(n, data) ==
    IF n = 0 THEN [shape |-> <<0>>, data |-> <<>>]
    ELSE [shape |-> <<n, Dim>>, data |-> data]

RECURSIVE Reverse(_)
Reverse(q) == IF q = <<>> THEN <<>> ELSE Append(Reverse(Tail(q)), Head(q))

EncodeReversed(m, texts, normalize) ==
    NdArray(Len(texts), Flat(m, Reverse(texts), normalize))

RECURSIVE FlatBatch(_, _, _)
FlatBatch(m, texts, d) ==
    IF texts = <<>> THEN <<>>
    ELSE Scale(RawVec(m, Head(texts)), d) \o FlatBatch(m, Tail(texts), d)

EncodeBatchNorm(m, texts, normalize) ==
    IF texts = <<>> THEN NdArray(0, <<>>)
    ELSE NdArray(Len(texts), FlatBatch(m, texts, Norm(RawVec(m, texts[1]))))

Encode(m, texts, normalize) == NdArray(Len(texts), Flat(m, texts, normalize))

\* ndarray.tolist()
ToList(a) ==
    IF Len(a.shape) = 1 THEN a.data
    ELSE [i \in 1..a.shape[1] |->
            SubSeq(a.data, (i - 1) * a.shape[2] + 1, i * a.shape[2])]

EmptyArray == NdArray(0, <<>>)

\* HTTP responses.
NoResp == [status |-> 0, kind |-> "none", embeddings |-> <<>>]
Ok(list) == [status |-> 200, kind |-> "embeddings", embeddings |-> list]
Unprocessable == [status |-> 422, kind |-> "detail", embeddings |-> <<>>]
ServerError == [status |-> 500, kind |-> "error", embeddings |-> <<>>]

VARIABLES
    mainpc,     \* position of the module's top-level code
    model,      \* the global "model"
    loads,      \* number of SentenceTransformer(...) constructions
    pc,         \* per request: position in the request's handling
    body,       \* per request: the JSON body received
    connected,  \* per request: the caller is still connected
    req,        \* per request: the validated TextRequest.texts
    arr,        \* per request: the local "embeddings" array
    resp,       \* per request: the response produced
    calls,      \* per request: number of model.encode invocations
    raised,     \* per request: model.encode raised
    responses,  \* per request: number of responses produced
    seen        \* per string s: the vectors answered to embed([s])

vars == <<mainpc, model, loads, pc, body, connected, req, arr, resp,
          calls, raised, responses, seen>>

reqvars == <<pc, body, connected, req, arr, resp, calls, raised, responses, seen>>

Init ==
    /\ mainpc = "import"
    /\ model = "none"
    /\ loads = 0
    /\ pc = [r \in Slots |-> "idle"]
    /\ body = [r \in Slots |-> [kind |-> "missing", items |-> <<>>]]
    /\ connected = [r \in Slots |-> FALSE]
    /\ req = [r \in Slots |-> <<>>]
    /\ arr = [r \in Slots |-> EmptyArray]
    /\ resp = [r \in Slots |-> NoResp]
    /\ calls = [r \in Slots |-> 0]
    /\ raised = [r \in Slots |-> FALSE]
    /\ responses = [r \in Slots |-> 0]
    /\ seen = [s \in Strings |-> {}]

(***************************************************************************)
(* Top-level code of the module.                                           *)
(***************************************************************************)
LoadModelSwallow ==
    /\ mainpc = "import"
    /\ loads' = loads + 1
    /\ \/ model' = ModelName
       \/ model' = model
    /\ mainpc' = "configure"
    /\ UNCHANGED reqvars

\* model = SentenceTransformer("all-MiniLM-L6-v2"): returns the model, or
\* raises and ends the import.
LoadModel ==
    /\ mainpc = "import"
    /\ loads' = loads + 1
    /\ \/ /\ model' = ModelName
          /\ mainpc' = "configure"
       \/ /\ model' = model
          /\ mainpc' = "exited"
    /\ UNCHANGED reqvars

\* app = FastAPI(); app.add_middleware(...); @app.post("/embed")
CreateApp ==
    /\ mainpc = "configure"
    /\ mainpc' = "run"
    /\ UNCHANGED <<model, loads>>
    /\ UNCHANGED reqvars

\* uvicorn.run(app, host="0.0.0.0", port=8001)
RunServer ==
    /\ mainpc = "run"
    /\ mainpc' = "serving"
    /\ UNCHANGED <<model, loads>>
    /\ UNCHANGED reqvars

(***************************************************************************)
(* One request.                                                            *)
(***************************************************************************)
Receive(r, b) ==
    /\ mainpc = "serving"
    /\ pc[r] = "idle"
    /\ pc' = [pc EXCEPT ![r] = "received"]
    /\ body' = [body EXCEPT ![r] = b]
    /\ connected' = [connected EXCEPT ![r] = TRUE]
    /\ UNCHANGED <<mainpc, model, loads, req, arr, resp, calls, raised, responses, seen>>

\* FastAPI builds the TextRequest argument; a body that does not validate
\* is answered 422 and the route function is not called.
Validate(r) ==
    /\ pc[r] = "received"
    /\ IF Valid(body[r])
       THEN /\ req' = [req EXCEPT ![r] = Texts(body[r])]
            /\ pc' = [pc EXCEPT ![r] = "validated"]
            /\ UNCHANGED <<resp, responses>>
       ELSE /\ resp' = [resp EXCEPT ![r] = Unprocessable]
            /\ responses' = [responses EXCEPT ![r] = @ + 1]
            /\ pc' = [pc EXCEPT ![r] = "done"]
            /\ UNCHANGED req
    /\ UNCHANGED <<mainpc, model, loads, body, connected, arr, calls, raised, seen>>

\* embeddings = model.encode(req.texts, normalize_embeddings=True): the call
EncodeCall(r) ==
    /\ pc[r] = "validated"
    /\ pc' = [pc EXCEPT ![r] = "encoding"]
    /\ calls' = [calls EXCEPT ![r] = @ + 1]
    /\ UNCHANGED <<mainpc, model, loads, body, connected, req, arr, resp, raised,
                   responses, seen>>

InHandler == {"validated", "encoding", "encoded"}

EncodeReturnShared(r) ==
    /\ pc[r] = "encoding"
    /\ LET cur == CHOOSE o \in Slots :
                     /\ pc[o] \in InHandler
                     /\ \A p \in Slots : pc[p] \in InHandler => p <= o
       IN arr' = [arr EXCEPT ![r] = Encode(model, req[cur], TRUE)]
    /\ pc' = [pc EXCEPT ![r] = "encoded"]
    /\ UNCHANGED <<mainpc, model, loads, body, connected, req, resp, calls, raised,
                   responses, seen>>

EncodeReturnCached(r) ==
    /\ pc[r] = "encoding"
    /\ LET fresh == \A i \in 1..Len(req[r]) : seen[req[r][i]] = {}
       IN arr' = [arr EXCEPT ![r] = Encode(model, req[r], fresh)]
    /\ pc' = [pc EXCEPT ![r] = "encoded"]
    /\ UNCHANGED <<mainpc, model, loads, body, connected, req, resp, calls, raised,
                   responses, seen>>

EncodeReturnRaw(r) ==
    /\ pc[r] = "encoding"
    /\ arr' = [arr EXCEPT ![r] = Encode(model, req[r], FALSE)]
    /\ pc' = [pc EXCEPT ![r] = "encoded"]
    /\ UNCHANGED <<mainpc, model, loads, body, connected, req, resp, calls, raised,
                   responses, seen>>

\* ... and its return
EncodeReturn(r) ==
    /\ pc[r] = "encoding"
    /\ arr' = [arr EXCEPT ![r] = Encode(model, req[r], TRUE)]
    /\ pc' = [pc EXCEPT ![r] = "encoded"]
    /\ UNCHANGED <<mainpc, model, loads, body, connected, req, resp, calls, raised,
                   responses, seen>>

EncodeRaisePartial(r) ==
    /\ pc[r] = "encoding"
    /\ raised' = [raised EXCEPT ![r] = TRUE]
    /\ LET full == ToList(Encode(model, req[r], TRUE))
       IN resp' = [resp EXCEPT ![r] =
                     IF full = <<>> THEN ServerError
                     ELSE Ok(SubSeq(full, 1, Len(full) - 1))]
    /\ responses' = [responses EXCEPT ![r] = @ + 1]
    /\ pc' = [pc EXCEPT ![r] = "done"]
    /\ UNCHANGED <<mainpc, model, loads, body, connected, req, arr, calls, seen>>

EncodeRaiseRetry(r) ==
    /\ pc[r] = "encoding"
    /\ IF calls[r] < 2
       THEN /\ pc' = [pc EXCEPT ![r] = "validated"]
            /\ UNCHANGED <<raised, resp, responses>>
       ELSE /\ raised' = [raised EXCEPT ![r] = TRUE]
            /\ resp' = [resp EXCEPT ![r] = ServerError]
            /\ responses' = [responses EXCEPT ![r] = @ + 1]
            /\ pc' = [pc EXCEPT ![r] = "done"]
    /\ UNCHANGED <<mainpc, model, loads, body, connected, req, arr, calls, seen>>

\* ... or its exception, which leaves the route function and is answered 500
EncodeRaise(r) ==
    /\ pc[r] = "encoding"
    /\ raised' = [raised EXCEPT ![r] = TRUE]
    /\ resp' = [resp EXCEPT ![r] = ServerError]
    /\ responses' = [responses EXCEPT ![r] = @ + 1]
    /\ pc' = [pc EXCEPT ![r] = "done"]
    /\ UNCHANGED <<mainpc, model, loads, body, connected, req, arr, calls, seen>>

\* return {"embeddings": embeddings.tolist()}
Return(r) ==
    /\ pc[r] = "encoded"
    /\ resp' = [resp EXCEPT ![r] = Ok(ToList(arr[r]))]
    /\ responses' = [responses EXCEPT ![r] = @ + 1]
    /\ seen' = IF Len(req[r]) = 1
               THEN [seen EXCEPT ![req[r][1]] = @ \cup {ToList(arr[r])[1]}]
               ELSE seen
    /\ pc' = [pc EXCEPT ![r] = "done"]
    /\ UNCHANGED <<mainpc, model, loads, body, connected, req, arr, calls, raised>>

DisconnectAbort(r) ==
    /\ pc[r] \in {"received", "validated", "encoding", "encoded"}
    /\ connected[r]
    /\ connected' = [connected EXCEPT ![r] = FALSE]
    /\ model' = "none"
    /\ UNCHANGED <<mainpc, loads, pc, body, req, arr, resp, calls, raised,
                   responses, seen>>

\* The caller goes away; nothing in the route function looks at the connection.
Disconnect(r) ==
    /\ pc[r] \in {"received", "validated", "encoding", "encoded"}
    /\ connected[r]
    /\ connected' = [connected EXCEPT ![r] = FALSE]
    /\ UNCHANGED <<mainpc, model, loads, pc, body, req, arr, resp, calls, raised,
                   responses, seen>>

\* The response has been written (or dropped); the locals of the call are gone.
Complete(r) ==
    /\ pc[r] = "done"
    /\ pc' = [pc EXCEPT ![r] = "idle"]
    /\ body' = [body EXCEPT ![r] = [kind |-> "missing", items |-> <<>>]]
    /\ connected' = [connected EXCEPT ![r] = FALSE]
    /\ req' = [req EXCEPT ![r] = <<>>]
    /\ arr' = [arr EXCEPT ![r] = EmptyArray]
    /\ resp' = [resp EXCEPT ![r] = NoResp]
    /\ calls' = [calls EXCEPT ![r] = 0]
    /\ raised' = [raised EXCEPT ![r] = FALSE]
    /\ responses' = [responses EXCEPT ![r] = 0]
    /\ UNCHANGED <<mainpc, model, loads, seen>>

Startup ==
    \/ LoadModel
    \/ CreateApp
    \/ RunServer

Handle(r) ==
    \/ Validate(r)
    \/ EncodeCall(r)
    \/ EncodeReturn(r)
    \/ EncodeRaise(r)
    \/ Return(r)
    \/ Disconnect(r)
    \/ Complete(r)

\* Concurrent callers, each sending bodies of SmallBodies.
Next ==
    \/ Startup
    \/ \E r \in Slots, b \in SmallBodies : Receive(r, b)
    \/ \E r \in Slots : Handle(r)

Spec == Init /\ [][Next]_vars

\* One caller that sends any body of Bodies, one request after the other.
NextOne ==
    \/ Startup
    \/ \E b \in Bodies : Receive(1, b)
    \/ Handle(1)

SpecOne == Init /\ [][NextOne]_vars

TypeOK ==
    /\ mainpc \in {"import", "configure", "run", "serving", "exited"}
    /\ model \in {"none", ModelName}
    /\ pc \in [Slots -> {"idle", "received", "validated", "encoding", "encoded", "done"}]
    /\ \A r \in Slots : body[r] \in Bodies \cup {[kind |-> "missing", items |-> <<>>]}

(***************************************************************************)
(* Properties.                                                             *)
(***************************************************************************)
Done(r) == pc[r] = "done"
Succeeded(r) == Done(r) /\ resp[r].status = 200

\* What a request with body b is answered when it is the only request.
Solo(b) ==
    IF ~Valid(b) THEN {Unprocessable}
    ELSE {Ok(ToList(Encode(ModelName, Texts(b), TRUE))), ServerError}

\* Sum of the squares of the coordinates equals 1: all coordinates share the
\* denominator d and the numerators' squares add up to d * d.
UnitNorm(v) ==
    /\ v # <<>>
    /\ LET d == v[1][2]
       IN /\ d > 0
          /\ \A i \in 1..Len(v) : v[i][2] = d
          /\ SumSq([i \in 1..Len(v) |-> v[i][1]]) = d * d

\* C1: a valid request whose encode call does not raise is answered 200, and
\* every 200 response carries exactly one vector per input text, in input
\* order: embeddings[i] is the embedding of texts[i]; embed([]) gives [].
C1_LengthAndOrder ==
    \A r \in Slots :
        /\ (Done(r) /\ Valid(body[r]) /\ ~raised[r]) => resp[r].status = 200
        /\ Succeeded(r) =>
            /\ Valid(body[r])
            /\ Len(resp[r].embeddings) = Len(Texts(body[r]))
            /\ \A i \in 1..Len(Texts(body[r])) :
                  resp[r].embeddings[i] = Vec(ModelName, Texts(body[r])[i], TRUE)
            /\ (Texts(body[r]) = <<>> => resp[r].embeddings = <<>>)

C1_Witness ==
    \E r \in Slots : Succeeded(r) /\ Texts(body[r]) = <<"a", "">>

\* The schema {texts: list of strings}.
IsListOfStrings(b) ==
    /\ b.kind = "list"
    /\ \A i \in 1..Len(b.items) : b.items[i].t = "str"

\* C2: a request whose body does not match {texts: list of strings} never
\* reaches model.encode, is answered with a 4xx status, and the server is
\* still serving and can take the next request.
C2_MalformedRejected ==
    \A r \in Slots :
        (pc[r] # "idle" /\ ~IsListOfStrings(body[r])) =>
            /\ calls[r] = 0
            /\ pc[r] \in {"received", "done"}
            /\ Done(r) =>
                /\ resp[r].status \in 400..499
                /\ mainpc = "serving"
                /\ ENABLED Complete(r)

C2_Witness ==
    \E r \in Slots :
        /\ Done(r)
        /\ body[r].kind = "list"
        /\ ~IsListOfStrings(body[r])
        /\ resp[r].status = 422

\* C3: a response carries either one vector for every input text or none at
\* all; when model.encode raised, the response is a 5xx with no embeddings.
C3_AllOrNothing ==
    \A r \in Slots :
        Done(r) =>
            /\ raised[r] =>
                /\ resp[r].status \in 500..599
                /\ resp[r].kind # "embeddings"
                /\ resp[r].embeddings = <<>>
            /\ resp[r].kind = "embeddings" => Len(resp[r].embeddings) = Len(req[r])
            /\ resp[r].status # 200 => resp[r].embeddings = <<>>

C3_Witness ==
    \E r \in Slots : Done(r) /\ raised[r] /\ Len(req[r]) = 2

\* C4: a request is only ever handled by a serving process whose model was
\* constructed, exactly once; a process whose load failed has exited with
\* no model and never handles a request.
C4_LoadBeforeServe ==
    /\ (\E r \in Slots : pc[r] # "idle") =>
          (mainpc = "serving" /\ model = ModelName /\ loads = 1)
    /\ mainpc \in {"configure", "run", "serving"} => (model = ModelName /\ loads = 1)
    /\ mainpc = "exited" =>
          (model = "none" /\ loads = 1 /\ \A r \in Slots : pc[r] = "idle")
    /\ (\E s \in Strings : seen[s] # {}) => model = ModelName

C4_Witness ==
    \E r \in Slots : Succeeded(r) /\ loads = 1 /\ model = ModelName

\* C5: once constructed the model never changes, and under every
\* interleaving each response is one the request would get when handled
\* alone.
C5_Serializable ==
    /\ [](\A r \in Slots : Done(r) => resp[r] \in Solo(body[r]))
    /\ [][model # "none" => model' = model]_vars

C5_Witness ==
    \E r, o \in Slots :
        /\ Succeeded(r)
        /\ pc[o] \in {"encoding", "encoded"}
        /\ req[o] # req[r]
        /\ req[r] # <<>>

C7_Deterministic ==
    /\ \A s \in Strings : Cardinality(seen[s]) <= 1
    /\ \A r, o \in Slots :
          (Succeeded(r) /\ Succeeded(o) /\ Len(req[r]) = 1 /\ req[r] = req[o]) =>
              resp[r].embeddings = resp[o].embeddings

C7_Witness ==
    /\ NumReq >= 2
    /\ Succeeded(1) /\ Succeeded(2)
    /\ req[1] = <<"a">> /\ req[2] = <<"a">>
    /\ seen[""] # {}

\* C8: every returned vector has the model's dimension and unit L2 norm.
C8_UnitNorm ==
    /\ \A r \in Slots :
          Succeeded(r) =>
              \A i \in 1..Len(resp[r].embeddings) :
                  /\ Len(resp[r].embeddings[i]) = Dim
                  /\ UnitNorm(resp[r].embeddings[i])
    /\ \A s \in Strings : \A v \in seen[s] : Len(v) = Dim /\ UnitNorm(v)

C8_Witness ==
    \E r \in Slots : Succeeded(r) /\ req[r] = <<"", "a">>

\* C9: a request invokes model.encode at most once and gets exactly one
\* response; when the invocation raised, that one invocation is all there
\* was and the response is the failure.
C9_OneCallOneResponse ==
    \A r \in Slots :
        /\ calls[r] <= 1
        /\ responses[r] = (IF Done(r) THEN 1 ELSE 0)
        /\ raised[r] => (Done(r) /\ calls[r] = 1 /\ resp[r] = ServerError)
        /\ Succeeded(r) => calls[r] = 1

C9_Witness ==
    \E r \in Slots : Done(r) /\ raised[r] /\ calls[r] = 1 /\ responses[r] = 1

InFlight == {"received", "validated", "encoding", "encoded"}

\* C10 as stated: after the caller disconnects, the request's computation
\* goes no further, and the model and the other requests are unaffected.
C10_Abandons ==
    /\ [][\A r \in Slots :
            (pc[r] \in InFlight /\ ~connected[r]) =>
                (pc'[r] = pc[r] /\ calls'[r] = calls[r] /\ arr'[r] = arr[r])]_vars
    /\ [](\A r \in Slots : Done(r) => resp[r] \in Solo(body[r]))
    /\ [][model # "none" => model' = model]_vars

\* C10 amended: a disconnect does not stop the request, whose remaining steps
\* stay enabled and run to a response that is dropped; with any request
\* disconnected the model is still the loaded one and every response, of the
\* disconnected request and of the others, is the one it gets alone.
C10_DisconnectHarmless ==
    \A r \in Slots :
        (pc[r] # "idle" /\ ~connected[r]) =>
            /\ model = ModelName /\ mainpc = "serving"
            /\ pc[r] = "received" => ENABLED Validate(r)
            /\ pc[r] = "validated" => ENABLED EncodeCall(r)
            /\ pc[r] = "encoding" => ENABLED EncodeReturn(r)
            /\ pc[r] = "encoded" => ENABLED Return(r)
            /\ \A o \in Slots : Done(o) => resp[o] \in Solo(body[o])

C10_Witness ==
    \E r, o \in Slots :
        /\ ~connected[r] /\ Succeeded(r) /\ req[r] # <<>>
        /\ connected[o] /\ Succeeded(o) /\ req[o] # <<>>
====
